---- MODULE Spec2Model ----
(***************************************************************************)
(* Model of src/rutherford_simulation.tsx: the RutherfordSimulation React  *)
(* component.  Component state (useState), refs (useRef), the pending      *)
(* requestAnimationFrame callback and the render closure it was created in *)
(* are the state; one action per event handler / frame callback.  A click  *)
(* handler, the re-render its state updates cause and the effects of that  *)
(* render run in one task (React flushes the render and the effects of a   *)
(* discrete event synchronously), so each is one action.                   *)
(*                                                                         *)
(* Numbers are fixed point: lengths and velocities in 1/Scale pixel,       *)
(* angles in 1/AngleScale degree, all within 32 bits.                      *)
(***************************************************************************)
EXTENDS Integers, Sequences, FiniteSets, TLC

\* ---------------------------------------------------------------- constants
WIDTH == 600
HEIGHT == 400
NUCLEUS_RADIUS == 5
MAX_PARTICLES == 100
EMISSION_INTERVAL == 100
MAX_PATH == 100

\* fixed-point resolution of x, y, vx, vy, impactParameter (units per pixel)
Scale == 100
\* fixed-point resolution of angles (units per degree)
AngleScale == 100000

\* k = 1.44, in hundredths
COULOMB_K100 == 144
ALPHA_CHARGE == 2
SCALE_NUMERATOR == 5000
\* vx = 1.5 pixel per tick, in 1/Scale pixel
INITIAL_VX == 150

Abs(n) == IF n < 0 THEN -n ELSE n

\* ------------------------------------------------------------ Math.atan
\* AtanTable[i+1] = 2*atan(i/128) in 1/AngleScale degree, i = 0..128
AtanTable ==
  <<
    0, 89523, 179035, 268525, 357982, 447396, 536755, 626049,
    715267, 804398, 893432, 982358, 1071165, 1159844, 1248383, 1336773,
    1425003, 1513064, 1600946, 1688638, 1776132, 1863417, 1950485, 2037326,
    2123931, 2210291, 2296398, 2382243, 2467817, 2553113, 2638122, 2722837,
    2807249, 2891351, 2975136, 3058598, 3141728, 3224520, 3306968, 3389065,
    3470805, 3552182, 3633191, 3713826, 3794082, 3873952, 3953434, 4032521,
    4111209, 4189494, 4267372, 4344838, 4421890, 4498522, 4574733, 4650518,
    4725876, 4800802, 4875294, 4949350, 5022967, 5096144, 5168878, 5241167,
    5313010, 5384406, 5455353, 5525849, 5595895, 5665488, 5734629, 5803317,
    5871551, 5939331, 6006656, 6073527, 6139945, 6205908, 6271417, 6336473,
    6401077, 6465228, 6528928, 6592178, 6654978, 6717329, 6779233, 6840691,
    6901705, 6962274, 7022402, 7082090, 7141338, 7200150, 7258526, 7316469,
    7373980, 7431061, 7487714, 7543942, 7599746, 7655129, 7710093, 7764640,
    7818772, 7872491, 7925801, 7978703, 8031200, 8083294, 8134988, 8186284,
    8237185, 8287693, 8337812, 8387543, 8436889, 8485853, 8534437, 8582645,
    8630478, 8677940, 8725033, 8771760, 8818124, 8864127, 8909772, 8955062,
    9000000
  >>

SinTable ==
  <<
    0, 17452, 34899, 52336, 69756, 87156, 104528, 121869,
    139173, 156434, 173648, 190809, 207912, 224951, 241922, 258819,
    275637, 292372, 309017, 325568, 342020, 358368, 374607, 390731,
    406737, 422618, 438371, 453990, 469472, 484810, 500000, 515038,
    529919, 544639, 559193, 573576, 587785, 601815, 615661, 629320,
    642788, 656059, 669131, 681998, 694658, 707107, 719340, 731354,
    743145, 754710, 766044, 777146, 788011, 798636, 809017, 819152,
    829038, 838671, 848048, 857167, 866025, 874620, 882948, 891007,
    898794, 906308, 913545, 920505, 927184, 933580, 939693, 945519,
    951057, 956305, 961262, 965926, 970296, 974370, 978148, 981627,
    984808, 987688, 990268, 992546, 994522, 996195, 997564, 998630,
    999391, 999848, 1000000
  >>

\* u = n/d (0 <= n < d) as a binary fraction of `bits` bits, by long division
RECURSIVE BinFrac(_, _, _, _)
BinFrac(r, d, bits, acc) ==
  IF bits = 0 THEN acc
  ELSE IF 2 * r >= d THEN BinFrac(2 * r - d, d, bits - 1, 2 * acc + 1)
       ELSE BinFrac(2 * r, d, bits - 1, 2 * acc)

\* 2^27: one, in the fixed point used for the argument of atan
FracOne == 134217728
\* 2^20: width of one AtanTable interval (FracOne / 128)
FracStep == 1048576

\* 2*atan(u / FracOne) for 0 <= u <= FracOne, in 1/AngleScale degree:
\* linear interpolation in AtanTable, monotone in u
TwiceAtanUnit(u) ==
  LET i    == u \div FracStep
      frac == u % FracStep
      lo   == AtanTable[i + 1]
      hi   == IF i < 128 THEN AtanTable[i + 2] ELSE lo
      dlt  == hi - lo
  IN  lo + ((dlt \div 1024) * frac) \div 1024 + ((dlt % 1024) * frac) \div FracStep

\* 2 * Math.atan(num / den) in 1/AngleScale degree (num >= 0, den > 0);
\* atan(t) = 90 - atan(1/t) for t > 1
TwiceAtan(num, den) ==
  IF num = den THEN TwiceAtanUnit(FracOne)
  ELSE IF num < den THEN TwiceAtanUnit(BinFrac(num, den, 27, 0))
  ELSE 180 * AngleScale - TwiceAtanUnit(BinFrac(den, num, 27, 0))

\* Math.sin of an angle a in 0..90 degrees, times 10^6
SinQuadrant(a) ==
  LET d    == a \div AngleScale
      frac == a % AngleScale
      lo   == SinTable[d + 1]
      hi   == IF d < 90 THEN SinTable[d + 2] ELSE lo
  IN  lo + ((hi - lo) * frac) \div AngleScale

\* Math.sin / Math.cos of any angle (1/AngleScale degree), times 10^6
Sin(a) ==
  LET m == a % (360 * AngleScale)
  IN  IF m <= 90 * AngleScale THEN SinQuadrant(m)
      ELSE IF m <= 180 * AngleScale THEN SinQuadrant(180 * AngleScale - m)
      ELSE IF m <= 270 * AngleScale THEN -SinQuadrant(m - 180 * AngleScale)
      ELSE -SinQuadrant(360 * AngleScale - m)

Cos(a) == Sin(a + 90 * AngleScale)

\* n / d rounded to the nearest integer (d > 0)
RoundDiv(n, d) == IF n >= 0 THEN (2 * n + d) \div (2 * d) ELSE -((2 * (-n) + d) \div (2 * d))

\* Math.sqrt of n >= 0, rounded down
ISqrt(n) == CHOOSE s \in 0..(2 * WIDTH * Scale) : s * s <= n /\ (s + 1) * (s + 1) > n

\* --------------------------------------------------- calculateTrajectory
\* tan(theta/2) = (k*Z*alphaCharge) / (2*energy*|b|*scaleFactor) with
\* scaleFactor = 5000/energy^2, as the fraction TanNum/TanDen: both sides are
\* multiplied by energy^2 (the hundredths of k and of b cancel)
\* mutation: the nuclear charge left out of the numerator
TanNumNoCharge(Z, energy) == COULOMB_K100 * ALPHA_CHARGE * energy * energy

TanNum(Z, energy) == COULOMB_K100 * Z * ALPHA_CHARGE * energy * energy
TanDen(b, energy) == 2 * energy * Abs(b) * SCALE_NUMERATOR


\* mutation: the angle computed without the impactParameter !== 0 guard
calculateTrajectoryUnguarded(b, Z, energy, factor) ==
  LET angle0 == TwiceAtan(TanNum(Z, energy), TanDen(b, energy))
      angle1 == (angle0 \div 1000) * factor + ((angle0 % 1000) * factor) \div 1000
  IN  IF b < 0 THEN -angle1 ELSE angle1

\* the deflection angle in 1/AngleScale degree; factor is the value of
\* (0.9 + Math.random() * 0.2) in thousandths
calculateTrajectory(b, Z, energy, factor) ==
  LET angle0 == IF b # 0 THEN TwiceAtan(TanNum(Z, energy), TanDen(b, energy)) ELSE 0
      angle1 == IF b # 0
                THEN (angle0 \div 1000) * factor + ((angle0 % 1000) * factor) \div 1000
                ELSE 0
  IN  IF b < 0 THEN -angle1 ELSE angle1

\* ------------------------------------------------------------- the state
VARIABLES
  running,        \* useState(false)
  counter,        \* useState(0): particles emitted
  nuclearCharge,  \* useState(79)
  alphaEnergy,    \* useState(5)
  showPaths,      \* useState(true)
  particles,      \* particlesRef.current
  histogramData,  \* histogramDataRef.current: bin key -> count
  startTimeRef,   \* startTimeRef.current: <<>> is null, <<t>> a timestamp
  animationRef,   \* animationRef.current: last handle of requestAnimationFrame, 0 is null
  pendingFrame,   \* the browser's callback list: <<>> or <<[handle, env]>>
  clock,          \* timestamp of the latest frame (ms)
  canvas,         \* what the last drawSimulation painted in the text overlay
  ticks,          \* history: animate callbacks executed in this behaviour
  deflected,      \* history: particles deflected since the last reset
  outOfRange,     \* history: deflections by 180 degrees or more since the last reset
  commands,       \* history: clicks and slider changes handled in this behaviour
  probe           \* inputs and result of a stand-alone calculateTrajectory call

simVars == <<running, counter, nuclearCharge, alphaEnergy, showPaths, particles,
             histogramData, startTimeRef, animationRef, pendingFrame, clock,
             canvas, ticks, deflected, outOfRange, commands>>
vars == <<simVars, probe>>

\* ------------------------------------------------------------- bounds
\* animate callbacks executed in one behaviour
MaxFrames == 3
\* clicks and slider changes handled in one behaviour
MaxCommands == 2

\* values of Math.random() and of the inputs, as the finite sets explored
ImpactChoices == {-500, 4000}        \* y - HEIGHT/2 at spawn, in 1/Scale pixel
FactorChoices == {900, 1099}         \* 0.9 + Math.random()*0.2, thousandths
PerturbChoices == {-10, 9}           \* (Math.random()-0.5)*0.2, in 1/Scale pixel
FrameDeltas == {16, 120}             \* ms between two frames
ChargeChoices == {79, 92}            \* slider, 1..92
EnergyChoices == {5, 10}             \* slider, 1..10

BinKeys == { 10 * i : i \in 0..17 }
EmptyHistogram == [k \in BinKeys |-> 0]

\* the values of one render that the functions created in it close over
RenderEnv(r, c, z, e, sp) ==
  [running |-> r, counter |-> c, nuclearCharge |-> z, alphaEnergy |-> e, showPaths |-> sp]

\* ------------------------------------------------------------ createParticle
\* id is a history label (the emission number) that tells the particles of the
\* store apart; b is the value of (Math.random() - 0.5) * (HEIGHT / 2)
createParticle(id, b) ==
  LET y == (HEIGHT * Scale) \div 2 + b
  IN  [id |-> id, x |-> 0, y |-> y, vx |-> INITIAL_VX, vy |-> 0,
       impactParameter |-> y - (HEIGHT * Scale) \div 2,
       hasReachedNucleus |-> FALSE, path |-> << <<0, y>> >>]

\* ----------------------------------------------------- updateParticlePosition
\* mutation: the proximity test against ten times the nucleus radius
NearNucleusWide(p) ==
  LET dx == p.x - (WIDTH * Scale) \div 2
      dy == p.y - (HEIGHT * Scale) \div 2
  IN  dx * dx + dy * dy <= (NUCLEUS_RADIUS * 10 * Scale) * (NUCLEUS_RADIUS * 10 * Scale)

\* mutation: the proximity test with < in place of <=
NearNucleusStrict(p) ==
  LET dx == p.x - (WIDTH * Scale) \div 2
      dy == p.y - (HEIGHT * Scale) \div 2
  IN  dx * dx + dy * dy < (NUCLEUS_RADIUS * 3 * Scale) * (NUCLEUS_RADIUS * 3 * Scale)

\* Math.sqrt(dx^2 + dy^2) <= NUCLEUS_RADIUS * 3, compared as squares
NearNucleus(p) ==
  LET dx == p.x - (WIDTH * Scale) \div 2
      dy == p.y - (HEIGHT * Scale) \div 2
  IN  dx * dx + dy * dy <= (NUCLEUS_RADIUS * 3 * Scale) * (NUCLEUS_RADIUS * 3 * Scale)

\* mutation: the proximity test without the hasReachedNucleus guard
ScattersAlways(p) == NearNucleus(p)

\* the condition of the scattering branch
Scatters(p) == ~p.hasReachedNucleus /\ NearNucleus(p)

\* the angle the scattering branch computes; rnd = <<factor, dvx, dvy>>
ScatterAngle(p, env, rnd) ==
  calculateTrajectory(p.impactParameter, env.nuclearCharge, env.alphaEnergy, rnd[1])

\* mutation: the bin key without Math.abs
BinKeySigned(angle) == (angle \div (10 * AngleScale)) * 10

\* Math.floor(Math.abs(angle) / 10) * 10
BinKey(angle) == (Abs(angle) \div (10 * AngleScale)) * 10

\* mutation: the speed taken as sqrt(vx * vy)
ScatteredSpeedProduct(p, env, rnd) ==
  LET angle == ScatterAngle(p, env, rnd)
      speed == ISqrt(p.vx * p.vy)
  IN  [p EXCEPT !.hasReachedNucleus = TRUE,
                !.vx = RoundDiv(speed * Cos(angle), 1000000) + rnd[2],
                !.vy = RoundDiv(speed * Sin(angle), 1000000) + rnd[3]]

\* the particle after the scattering branch
Scattered(p, env, rnd) ==
  LET angle == ScatterAngle(p, env, rnd)
      speed == ISqrt(p.vx * p.vx + p.vy * p.vy)
  IN  [p EXCEPT !.hasReachedNucleus = TRUE,
                !.vx = RoundDiv(speed * Cos(angle), 1000000) + rnd[2],
                !.vy = RoundDiv(speed * Sin(angle), 1000000) + rnd[3]]

\* mutation: the path is recorded whatever showPaths is
RecordsPathAlways(p, env) == Len(p.path) < MAX_PATH

\* the condition of the path branch
RecordsPath(p, env) == env.showPaths /\ Len(p.path) < MAX_PATH

\* the particle after one call; rnd is read only when the particle scatters
Moved(p, env, rnd) ==
  LET q == IF Scatters(p) THEN Scattered(p, env, rnd) ELSE p
      m == [q EXCEPT !.x = q.x + q.vx, !.y = q.y + q.vy]
  IN  IF RecordsPath(m, env) THEN [m EXCEPT !.path = Append(m.path, <<m.x, m.y>>)] ELSE m

\* mutation: the bounds test without the right edge
InCanvasNoRightEdge(m) == ~(m.x < 0 \/ m.y < 0 \/ m.y > HEIGHT * Scale)

\* the value returned to filter
InCanvas(m) == ~(m.x < 0 \/ m.x > WIDTH * Scale \/ m.y < 0 \/ m.y > HEIGHT * Scale)

\* mutation: an angle beyond the last bin is counted in the last bin
RecordedKeyClamped(angle) == IF BinKey(angle) \in BinKeys THEN BinKey(angle) ELSE 170

\* the histogram key a deflection increments; -1 when the key is undefined
RecordedKey(angle) == IF BinKey(angle) \in BinKeys THEN BinKey(angle) ELSE -1

\* ------------------------------------------------------------ drawSimulation
Painted(source, env) ==
  [source |-> source, counter |-> env.counter,
   nuclearCharge |-> env.nuclearCharge, alphaEnergy |-> env.alphaEnergy]

CurrentEnv == RenderEnv(running, counter, nuclearCharge, alphaEnergy, showPaths)

\* ------------------------------------------------------------------ animate
\* mutation: the spawn condition without the population cap
SpawnDueNoCap(env, elapsed, store) ==
  elapsed > env.counter * EMISSION_INTERVAL /\ env.running

\* the spawn condition, with the counter and the running flag of the closure
SpawnDue(env, elapsed, store) ==
  elapsed > env.counter * EMISSION_INTERVAL /\ Len(store) < MAX_PARTICLES /\ env.running

\* mutation: the counter is not advanced by a spawn
EmittedNever(c, spawn) == c

\* setCounter(prev => prev + 1) inside the spawn branch
Emitted(c, spawn) == IF spawn THEN c + 1 ELSE c

\* one frame callback: frame f = [handle, env] runs with timestamp clock + dt
animate(f, dt, b) ==
  LET env       == f.env
      timestamp == clock + dt
      origin    == IF startTimeRef = <<>> THEN timestamp ELSE startTimeRef[1]
      elapsed   == timestamp - origin
      spawn     == SpawnDue(env, elapsed, particles)
      store     == IF spawn THEN Append(particles, createParticle(counter + 1, b))
                   ELSE particles
      hit       == { i \in 1..Len(store) : Scatters(store[i]) }
  IN  /\ ticks < MaxFrames
      /\ clock' = timestamp
      /\ ticks' = ticks + 1
      /\ startTimeRef' = <<origin>>
      /\ counter' = Emitted(counter, spawn)
      /\ \E rnd \in [hit -> FactorChoices \X PerturbChoices \X PerturbChoices] :
           LET draw(i)  == IF i \in hit THEN rnd[i] ELSE <<1000, 0, 0>>
               moved    == [i \in 1..Len(store) |-> Moved(store[i], env, draw(i))]
               keyOf(i) == RecordedKey(ScatterAngle(store[i], env, rnd[i]))
           IN  /\ particles' = SelectSeq(moved, InCanvas)
               /\ histogramData' =
                    [k \in BinKeys |->
                       histogramData[k] + Cardinality({ i \in hit : keyOf(i) = k })]
               /\ deflected' = deflected + Cardinality(hit)
               /\ outOfRange' = outOfRange + Cardinality({ i \in hit :
                    Abs(ScatterAngle(store[i], env, rnd[i])) >= 180 * AngleScale })
      /\ canvas' = Painted("animate", env)
      /\ IF env.running
         THEN /\ animationRef' = animationRef + 1
              /\ pendingFrame' = << [handle |-> animationRef + 1, env |-> env] >>
         ELSE /\ animationRef' = animationRef
              /\ pendingFrame' = <<>>
      /\ UNCHANGED <<running, nuclearCharge, alphaEnergy, showPaths, commands, probe>>

Tick == \E f \in { pendingFrame[i] : i \in 1..Len(pendingFrame) } :
          \E dt \in FrameDeltas : \E b \in ImpactChoices : animate(f, dt, b)

\* ---------------------------------------------------- useEffect(..., [running])
\* mutation: the requested frame is left in the callback list
CancelledNothing(frames) == frames

\* cancelAnimationFrame(animationRef.current)
Cancelled(frames) == SelectSeq(frames, LAMBDA f : f.handle # animationRef)

\* the callback list after the cleanup of the previous effect and the effect
\* of a render in which running changed to r; env is that render's closure
EffectFrames(r, env) ==
  IF r THEN Append(Cancelled(pendingFrame), [handle |-> animationRef + 1, env |-> env])
  ELSE Cancelled(pendingFrame)

EffectHandle(r) == IF r THEN animationRef + 1 ELSE animationRef

\* mutation: the toggle also empties the particle store
handleToggleClearing ==
  /\ commands < MaxCommands
  /\ commands' = commands + 1
  /\ startTimeRef' = IF ~running THEN <<>> ELSE startTimeRef
  /\ running' = ~running
  /\ pendingFrame' = EffectFrames(~running, RenderEnv(~running, counter, nuclearCharge, alphaEnergy, showPaths))
  /\ animationRef' = EffectHandle(~running)
  /\ particles' = <<>>
  /\ UNCHANGED <<counter, nuclearCharge, alphaEnergy, showPaths,
                 histogramData, clock, canvas, ticks, deflected, outOfRange, probe>>

\* ----------------------------------------------------- handleToggleSimulation
handleToggleSimulation ==
  /\ commands < MaxCommands
  /\ commands' = commands + 1
  /\ startTimeRef' = IF ~running THEN <<>> ELSE startTimeRef
  /\ running' = ~running
  /\ pendingFrame' = EffectFrames(~running, RenderEnv(~running, counter, nuclearCharge, alphaEnergy, showPaths))
  /\ animationRef' = EffectHandle(~running)
  /\ UNCHANGED <<counter, nuclearCharge, alphaEnergy, showPaths, particles,
                 histogramData, clock, canvas, ticks, deflected, outOfRange, probe>>

\* ---------------------------------------------------------------- handleReset
handleReset ==
  /\ commands < MaxCommands
  /\ commands' = commands + 1
  /\ running' = FALSE
  /\ counter' = 0
  /\ particles' = <<>>
  /\ histogramData' = EmptyHistogram
  /\ startTimeRef' = <<>>
  /\ canvas' = Painted("reset", CurrentEnv)
  /\ pendingFrame' = IF running THEN EffectFrames(FALSE, CurrentEnv) ELSE pendingFrame
  /\ deflected' = 0
  /\ outOfRange' = 0
  /\ UNCHANGED <<nuclearCharge, alphaEnergy, showPaths, animationRef, clock, ticks, probe>>

\* --------------------------------------------- the sliders and the checkbox
\* onChange, then the redraw effect of the render with the new value
setNuclearCharge(z) ==
  /\ commands < MaxCommands
  /\ commands' = commands + 1
  /\ z # nuclearCharge
  /\ nuclearCharge' = z
  /\ canvas' = Painted("params", RenderEnv(running, counter, z, alphaEnergy, showPaths))
  /\ UNCHANGED <<running, counter, alphaEnergy, showPaths, particles, histogramData,
                 startTimeRef, animationRef, pendingFrame, clock, ticks, deflected,
                 outOfRange, probe>>

setAlphaEnergy(e) ==
  /\ commands < MaxCommands
  /\ commands' = commands + 1
  /\ e # alphaEnergy
  /\ alphaEnergy' = e
  /\ canvas' = Painted("params", RenderEnv(running, counter, nuclearCharge, e, showPaths))
  /\ UNCHANGED <<running, counter, nuclearCharge, showPaths, particles, histogramData,
                 startTimeRef, animationRef, pendingFrame, clock, ticks, deflected,
                 outOfRange, probe>>

setShowPaths ==
  /\ commands < MaxCommands
  /\ commands' = commands + 1
  /\ showPaths' = ~showPaths
  /\ canvas' = Painted("params", RenderEnv(running, counter, nuclearCharge, alphaEnergy, ~showPaths))
  /\ UNCHANGED <<running, counter, nuclearCharge, alphaEnergy, particles, histogramData,
                 startTimeRef, animationRef, pendingFrame, clock, ticks, deflected,
                 outOfRange, probe>>

ChangeCharge == \E z \in ChargeChoices : setNuclearCharge(z)
ChangeEnergy == \E e \in EnergyChoices : setAlphaEnergy(e)

\* ------------------------------------------------------------ specification
NoProbe == [b |-> 0, Z |-> 0, energy |-> 0, factor |-> 0, angle |-> 0, last |-> "none"]

\* the component after its first render and its mount effects
Init ==
  /\ running = FALSE
  /\ counter = 0
  /\ nuclearCharge = 79
  /\ alphaEnergy = 5
  /\ showPaths = TRUE
  /\ particles = <<>>
  /\ histogramData = EmptyHistogram
  /\ startTimeRef = <<>>
  /\ animationRef = 0
  /\ pendingFrame = <<>>
  /\ clock = 0
  /\ canvas = Painted("mount", RenderEnv(FALSE, 0, 79, 5, TRUE))
  /\ ticks = 0
  /\ deflected = 0
  /\ outOfRange = 0
  /\ commands = 0
  /\ probe = NoProbe

Next ==
  \/ Tick
  \/ handleToggleSimulation
  \/ handleReset
  \/ ChangeCharge
  \/ ChangeEnergy
  \/ setShowPaths

Spec == Init /\ [][Next]_vars

\* ------------------------------------------------- a run already under way
\* p after n further calls of updateParticlePosition in which it does not scatter
\* (a particle that left the canvas is filtered out and moves no further)
RECURSIVE Fly(_, _, _)
Fly(p, env, n) ==
  IF n = 0 THEN p
  ELSE IF n = 1 THEN Moved(p, env, <<1000, 0, 0>>)
  ELSE LET half == Fly(p, env, n \div 2)
       IN  IF InCanvas(half) THEN Fly(half, env, n - n \div 2) ELSE half

\* the number of calls after which a particle spawned with offset b is first
\* within the scattering distance; 0 when it never is
HitTick(b) ==
  LET near(k) == NearNucleus([x |-> INITIAL_VX * k, y |-> (HEIGHT * Scale) \div 2 + b])
      ks      == { k \in 1..((WIDTH * Scale) \div INITIAL_VX) : near(k) }
  IN  IF ks = {} THEN 0 ELSE CHOOSE k \in ks : \A j \in ks : k <= j

\* the shortest interval between two frames
FrameInterval == CHOOSE d \in FrameDeltas : \A e \in FrameDeltas : d <= e

FlightImpacts == {-1, 0, 1500, 1501}
\* the calls a particle has had in InitFlight: one short of its deflection, or
\* one short of the centre line x = WIDTH / 2 when it is never deflected
FlightTicks(b) ==
  IF HitTick(b) = 0 THEN ((WIDTH * Scale) \div 2) \div INITIAL_VX - 1 ELSE HitTick(b) - 1

\* One particle in the store, one call away from the scattering distance, the
\* simulation paused: the user has started, paused after the first emission and
\* then resumed and paused again before each further emission fell due (with
\* a closure counter of 1 no frame within 100 ms of a start spawns).
InitFlight ==
  \E b \in FlightImpacts :
    LET n   == FlightTicks(b)
        env == RenderEnv(TRUE, 1, 79, 5, TRUE)
    IN  /\ running = FALSE
        /\ counter = 1
        /\ nuclearCharge = 79
        /\ alphaEnergy = 5
        /\ showPaths = TRUE
        /\ particles = << Fly(createParticle(1, b), env, n) >>
        /\ histogramData = EmptyHistogram
        /\ startTimeRef = <<(n - 6) * FrameInterval>>
        /\ animationRef = n + n \div 7 + 2
        /\ pendingFrame = <<>>
        /\ clock = n * FrameInterval
        /\ canvas = Painted("animate", env)
        /\ ticks = 0
        /\ deflected = 0
        /\ outOfRange = 0
        /\ commands = 0
        /\ probe = NoProbe

SpecFlight == InitFlight /\ [][Next]_vars

\* The store at the cap, the oldest particle on the right edge: the state 401
\* frames of FrameInterval ms after the first start, every particle spawned
\* outside the scattering distance, path display switched off before the start.
CapTicks == (WIDTH * Scale) \div INITIAL_VX + 1
CapImpact(j) == IF j % 2 = 0 THEN 4000 ELSE -4000

InitCap ==
  LET env == RenderEnv(TRUE, 0, 79, 5, FALSE)
  IN  /\ running = TRUE
      /\ counter = MAX_PARTICLES
      /\ nuclearCharge = 79
      /\ alphaEnergy = 5
      /\ showPaths = FALSE
      /\ particles = [j \in 1..MAX_PARTICLES |->
                        Fly(createParticle(j, CapImpact(j)), env, CapTicks - j)]
      /\ histogramData = EmptyHistogram
      /\ startTimeRef = <<FrameInterval>>
      /\ animationRef = CapTicks + 1
      /\ pendingFrame = << [handle |-> CapTicks + 1, env |-> env] >>
      /\ clock = CapTicks * FrameInterval
      /\ canvas = Painted("animate", env)
      /\ ticks = 0
      /\ deflected = 0
      /\ outOfRange = 0
      /\ commands = 0
      /\ probe = NoProbe

SpecCap == InitCap /\ [][Next]_vars


\* ------------------------------------------------------------ frames keep coming
\* The two scenarios together, with the browser's guarantee that a requested
\* animation frame that stays requested is eventually delivered.
\* the flights taken up here: a near head-on one (deflected backwards) and
\* one at the scattering distance (deflected slightly)
RunImpacts == { b \in FlightImpacts : b = -1 \/ b = NUCLEUS_RADIUS * 3 * Scale }

InitRun == (InitFlight /\ particles[1].impactParameter \in RunImpacts) \/ InitCap

\* the browser delivers the requested frame: a step of Next that is an animate
\* callback. It is enabled exactly when Tick is (a frame is requested and the
\* behaviour has frames left) and its steps are the steps of Tick.
Deliver == pendingFrame # <<>> /\ ticks < MaxFrames /\ ticks' = ticks + 1

SpecRun == InitRun /\ [][Next]_vars /\ WF_ticks(Deliver)
\* ------------------------------------------ calculateTrajectory on its own
\* One call of calculateTrajectory for a particle of impact parameter b under
\* the state values Z and energy, and the next call after a slider moved up.
ProbeImpacts == {-10000, -1500, -1, 0, 1, 500, 4000}
ProbeFactors == {900, 1000, 1099}

ProbeCall(b, Z, energy, factor, last) ==
  [b |-> b, Z |-> Z, energy |-> energy, factor |-> factor,
   angle |-> calculateTrajectory(b, Z, energy, factor), last |-> last]

RaiseCharge ==
  /\ probe.Z < 92
  /\ probe' = ProbeCall(probe.b, probe.Z + 1, probe.energy, probe.factor, "charge")
  /\ UNCHANGED simVars

RaiseEnergy ==
  /\ probe.energy < 10
  /\ probe' = ProbeCall(probe.b, probe.Z, probe.energy + 1, probe.factor, "energy")
  /\ UNCHANGED simVars

InitProbe ==
  /\ running = FALSE
  /\ counter = 0
  /\ nuclearCharge = 79
  /\ alphaEnergy = 5
  /\ showPaths = TRUE
  /\ particles = <<>>
  /\ histogramData = EmptyHistogram
  /\ startTimeRef = <<>>
  /\ animationRef = 0
  /\ pendingFrame = <<>>
  /\ clock = 0
  /\ canvas = Painted("mount", RenderEnv(FALSE, 0, 79, 5, TRUE))
  /\ ticks = 0
  /\ deflected = 0
  /\ outOfRange = 0
  /\ commands = 0
  /\ \E b \in ProbeImpacts : \E Z \in 1..92 : \E e \in 1..10 : \E f \in ProbeFactors :
       probe = ProbeCall(b, Z, e, f, "none")

NextProbe == RaiseCharge \/ RaiseEnergy

SpecProbe == InitProbe /\ [][NextProbe]_vars

\* ------------------------------------------------------------------ claims

\* C6: for a fixed nonzero impact parameter, nuclear charge and random factor,
\* a higher alphaEnergy gives a strictly smaller magnitude of the deflection
\* angle calculateTrajectory computes.
C6_EnergyDecreasesAngle ==
  [][(probe'.energy > probe.energy /\ probe'.Z = probe.Z /\ probe.b # 0)
       => Abs(probe'.angle) < Abs(probe.angle)]_vars

\* C7: for a fixed nonzero impact parameter, alphaEnergy and random factor,
\* a higher nuclearCharge (within 1..92) gives a strictly larger magnitude of
\* the deflection angle calculateTrajectory computes.
C7_ChargeIncreasesAngle ==
  [][(probe'.Z > probe.Z /\ probe'.energy = probe.energy /\ probe.b # 0)
       => Abs(probe'.angle) > Abs(probe.angle)]_vars

C7_Witness ==
  /\ probe.last = "charge"
  /\ probe.b # 0
  /\ probe.Z = 92
  /\ Abs(probe.angle) > 0

\* the sum of the counts of all histogram bins
RECURSIVE SumBins(_)
SumBins(keys) ==
  IF keys = {} THEN 0
  ELSE LET k == CHOOSE x \in keys : TRUE IN histogramData[k] + SumBins(keys \ {k})

\* a step is one animate callback
IsTick == ticks' = ticks + 1

\* the pairs <<p, q>> of a particle before a step and the same particle after it
Survivors ==
  { <<particles[i], particles'[j]>> :
      <<i, j>> \in { ij \in (1..Len(particles)) \X (1..Len(particles')) :
                       particles[ij[1]].id = particles'[ij[2]].id } }

\* C1 as stated: the bin counts add up to the number of particles deflected
\* since the last reset, whatever angle the deflection had.
C1_SumEqualsDeflected == SumBins(BinKeys) = deflected

\* C1 as amended: the bin counts add up to the number of particles deflected
\* since the last reset by an angle of magnitude below 180 degrees.
C1_SumEqualsDeflectedBelow180 == SumBins(BinKeys) = deflected - outOfRange

C1_Witness ==
  /\ deflected = 1
  /\ outOfRange = 1
  /\ SumBins(BinKeys) = 0
  /\ \E i \in 1..Len(particles) : particles[i].hasReachedNucleus

\* the state a reset leaves, but for the running flag of a later start
ResetState ==
  /\ ~running
  /\ particles = <<>>
  /\ histogramData = EmptyHistogram
  /\ counter = 0
  /\ startTimeRef = <<>>

\* C2: a reset in either state leaves the system stopped with an empty store,
\* all bins 0, counter 0 and no time origin, and no step repopulates the
\* store or the histogram before a start command.
C2_ResetStopsAndClears ==
  [][/\ handleReset => ResetState'
     /\ (ResetState /\ ~running') => (ResetState' /\ ~IsTick)]_vars

C2_Witness ==
  /\ ResetState
  /\ canvas.source = "reset"
  /\ canvas.counter > 0
  /\ ticks >= 2
  /\ ticks < MaxFrames
  /\ pendingFrame = <<>>

\* C3: an animate callback creates exactly one particle if and only if the
\* elapsed time exceeds the current emitted counter times EMISSION_INTERVAL,
\* the store is below MAX_PARTICLES and the simulation is running; else none.
C3_SpawnIffDueByCurrentCounter ==
  [][IsTick =>
       LET elapsed == clock' - startTimeRef'[1]
           due     == /\ elapsed > counter * EMISSION_INTERVAL
                      /\ Len(particles) < MAX_PARTICLES
                      /\ running
       IN  counter' = IF due THEN counter + 1 ELSE counter]_vars

\* C4: every animate callback moves, deflects and records the path of each
\* particle with the values nuclearCharge, alphaEnergy and showPaths have
\* when it runs.
C4_TickUsesCurrentParameters ==
  [][IsTick =>
       \A pq \in Survivors :
         \E rnd \in FactorChoices \X PerturbChoices \X PerturbChoices :
           pq[2] = Moved(pq[1], CurrentEnv, rnd)]_vars

\* C5: while the simulation is stopped no animate callback runs: nothing is
\* spawned, moved, deflected or removed, no bin changes and no callback draws
\* (the store and the bins change only by being cleared).
C5_NoTickWhileStopped ==
  [][~running =>
       /\ ~IsTick
       /\ particles' = particles \/ particles' = <<>>
       /\ histogramData' = histogramData \/ histogramData' = EmptyHistogram
       /\ counter' = counter \/ counter' = 0
       /\ canvas' = canvas \/ canvas'.source # "animate"]_vars

C5_Witness ==
  /\ ~running
  /\ ticks >= 2
  /\ ticks < MaxFrames
  /\ Len(particles) > 0
  /\ startTimeRef # <<>>

\* C8: a particle's hasReachedNucleus never goes back to false, and its
\* velocity changes only in the step in which the flag goes from false to true.
C8_VelocityChangesOnlyAtDeflection ==
  [][\A pq \in Survivors :
       /\ pq[1].hasReachedNucleus => pq[2].hasReachedNucleus
       /\ (pq[2].vx # pq[1].vx \/ pq[2].vy # pq[1].vy)
            => (~pq[1].hasReachedNucleus /\ pq[2].hasReachedNucleus)]_vars

C8_Witness ==
  /\ ticks = 3
  /\ \E i \in 1..Len(particles) :
       /\ particles[i].hasReachedNucleus
       /\ particles[i].vy # 0

\* C9: the store never holds more than MAX_PARTICLES particles; an animate
\* callback that finds it at the cap spawns nothing, and one that finds it
\* below the cap with the emission condition satisfied spawns again.
C9_StoreCapped ==
  /\ [](Len(particles) <= MAX_PARTICLES)
  /\ [][IsTick =>
          LET elapsed == clock' - startTimeRef'[1]
              env     == pendingFrame[1].env
          IN  /\ Len(particles) = MAX_PARTICLES => counter' = counter
              /\ (Len(particles) < MAX_PARTICLES /\ env.running
                    /\ elapsed > env.counter * EMISSION_INTERVAL)
                   => counter' = counter + 1]_vars

C9_Witness ==
  /\ ticks = 2
  /\ counter = MAX_PARTICLES + 1
  /\ Len(particles) = MAX_PARTICLES - 1
  /\ particles[Len(particles)].id = MAX_PARTICLES + 1

\* C10: in an animate callback a particle's path gains exactly its new
\* position if showPaths is enabled at that time and the path has fewer than
\* 100 points, and is unchanged otherwise.
C10_PathFollowsShowPaths ==
  [][IsTick =>
       \A pq \in Survivors :
         pq[2].path = IF showPaths /\ Len(pq[1].path) < MAX_PATH
                      THEN Append(pq[1].path, <<pq[2].x, pq[2].y>>)
                      ELSE pq[1].path]_vars

\* 0 <= x <= WIDTH and 0 <= y <= HEIGHT
WithinBounds(x, y) == 0 <= x /\ x <= WIDTH * Scale /\ 0 <= y /\ y <= HEIGHT * Scale

\* C11: after every animate callback every particle in the store lies within
\* the canvas bounds, and a particle that was in the store before the
\* callback is still in it after exactly if its integrated position lies
\* within the bounds.
C11_RemovedIffOutside ==
  [][IsTick =>
       /\ \A j \in 1..Len(particles') :
            WithinBounds(particles'[j].x, particles'[j].y)
       /\ \A i \in 1..Len(particles) :
            LET p    == particles[i]
                kept == \E j \in 1..Len(particles') : particles'[j].id = p.id
            IN  IF Scatters(p) THEN kept
                ELSE kept <=> WithinBounds(p.x + p.vx, p.y + p.vy)]_vars

\* the oldest particle has stepped past the right edge and is gone, the
\* others remain
C11_Witness ==
  /\ ticks = 1
  /\ Len(particles) = MAX_PARTICLES - 1
  /\ particles[1].id = 2
  /\ particles[1].x = WIDTH * Scale

\* C12: for an impact parameter of 0 the computed angle is exactly 0 whatever
\* the nuclear charge (1..92), the energy (1..10) and the random factor, and
\* the bin it is recorded in, floor(|angle| / 10) * 10, is bin 0, one of the
\* 18 bins.
C12_ZeroImpactZeroAngle ==
  probe.b = 0 =>
    /\ probe.angle = 0
    /\ (Abs(probe.angle) \div (10 * AngleScale)) * 10 = 0
    /\ RecordedKey(probe.angle) = 0

\* the angle has been computed for b = 0 at the largest charge and energy
C12_Witness ==
  /\ probe.b = 0
  /\ probe.Z = 92
  /\ probe.energy = 10
  /\ probe.last # "none"
  /\ probe.angle = 0

\* the impact parameter of the scenario of C13: 40 px
FarImpact == 40 * Scale

\* C13 as stated: with nuclearCharge 79 and alphaEnergy 5, by the time a
\* particle spawned with impactParameter 40 is removed, bin 0 has been
\* incremented for it.
C13_FarParticleRecordedInBin0 ==
  [][IsTick =>
       \A i \in 1..Len(particles) :
         LET p       == particles[i]
             env     == pendingFrame[1].env
             removed == \A j \in 1..Len(particles') : particles'[j].id # p.id
         IN  (p.impactParameter = FarImpact /\ env.nuclearCharge = 79
                /\ env.alphaEnergy = 5 /\ removed)
               => histogramData'[0] >= 1]_vars

\* C13 as amended: the angle computed for impactParameter 40 at charge 79 and
\* energy 5 falls in bin 0 for every random factor, but a particle spawned
\* with impactParameter 40 is at no callback within the scattering distance:
\* it keeps hasReachedNucleus = false and velocity (1.5, 0) for as long as it
\* is in the store, and bin 0 is not incremented.
C13_FarParticleNeverRecorded ==
  /\ HitTick(FarImpact) = 0
  /\ \A f \in FactorChoices :
       (Abs(calculateTrajectory(FarImpact, 79, 5, f)) \div (10 * AngleScale)) * 10 = 0
  /\ \A i \in 1..Len(particles) :
       particles[i].impactParameter = FarImpact =>
         /\ ~particles[i].hasReachedNucleus
         /\ particles[i].vx = INITIAL_VX
         /\ particles[i].vy = 0
  /\ histogramData[0] = 0

\* the second particle, spawned with impactParameter 40, has left past the
\* right edge and bin 0 is still empty
C13_Witness ==
  /\ ticks = 2
  /\ CapImpact(2) = FarImpact
  /\ particles[1].id = 3
  /\ pendingFrame # <<>>
  /\ pendingFrame[1].env.nuclearCharge = 79
  /\ pendingFrame[1].env.alphaEnergy = 5
  /\ histogramData[0] = 0

\* C14: a start command issued while stopped clears the time origin; the
\* first animate callback after it sets the origin to its own timestamp
\* (elapsed 0); and a callback that finds the store below the cap at an
\* elapsed time above one EMISSION_INTERVAL has spawned or spawns a particle
\* since that start (the counter exceeds the value it had at the start, which
\* is the counter of the render the callback was created in).
C14_StartRestartsPacing ==
  [][/\ (handleToggleSimulation /\ ~running) => startTimeRef' = <<>>
     /\ IsTick =>
          LET elapsed == clock' - startTimeRef'[1]
              atStart == pendingFrame[1].env.counter
          IN  /\ startTimeRef = <<>> => elapsed = 0
              /\ (running /\ elapsed > EMISSION_INTERVAL
                    /\ Len(particles) < MAX_PARTICLES) => counter' > atStart]_vars

\* the particles an animate step deflects, as pairs <<before, after>>
Deflections == { pq \in Survivors : ~pq[1].hasReachedNucleus /\ pq[2].hasReachedNucleus }

\* C15: the histogram always has exactly the keys 0, 10, ..., 170 with
\* natural counts; an animate callback that deflects no particle leaves it
\* unchanged, one that deflects a particle by angle a adds 1 to bin
\* floor(|a| / 10) * 10 and changes nothing else, or changes nothing when that
\* key is not one of the 18; and only a reset makes a count decrease.
C15_HistogramBins ==
  /\ [](/\ DOMAIN histogramData = { 10 * i : i \in 0..17 }
        /\ \A k \in DOMAIN histogramData : histogramData[k] \in Nat)
  /\ [][/\ handleReset \/ \A k \in DOMAIN histogramData : histogramData'[k] >= histogramData[k]
        /\ IsTick =>
             /\ Deflections = {} => histogramData' = histogramData
             /\ \A pq \in Deflections :
                  Cardinality(Deflections) = 1 =>
                    \E rnd \in FactorChoices \X PerturbChoices \X PerturbChoices :
                      LET env == pendingFrame[1].env
                          a   == calculateTrajectory(pq[1].impactParameter,
                                   env.nuclearCharge, env.alphaEnergy, rnd[1])
                          key == (Abs(a) \div (10 * AngleScale)) * 10
                      IN  /\ pq[2] = Moved(pq[1], env, rnd)
                          /\ histogramData' =
                               IF key \in DOMAIN histogramData
                               THEN [histogramData EXCEPT ![key] = @ + 1]
                               ELSE histogramData]_vars

\* one deflection has been recorded in a bin other than bin 0
C15_Witness ==
  /\ deflected = 1
  /\ outOfRange = 0
  /\ histogramData[0] = 0
  /\ \E k \in BinKeys : histogramData[k] = 1

\* a step that draws: an animate callback, a reset or a parameter change
DrawStep ==
  \/ IsTick
  \/ handleReset
  \/ nuclearCharge' # nuclearCharge
  \/ alphaEnergy' # alphaEnergy
  \/ showPaths' # showPaths

\* C16: every draw paints the overlay with the current values of the emitted
\* counter, nuclearCharge and alphaEnergy: the draw of a reset shows 0, the
\* draw of a parameter change the new value, and the draw of an animate
\* callback the number of particles emitted so far (counted with or without
\* the particle that callback itself emits).
C16_OverlayShowsCurrentValues ==
  [][DrawStep =>
       /\ canvas'.counter = counter' \/ (IsTick /\ canvas'.counter = counter)
       /\ canvas'.nuclearCharge = nuclearCharge'
       /\ canvas'.alphaEnergy = alphaEnergy']_vars

\* the particles an animate step appends: created at x = 0 and moved once in
\* the same callback, they are the ones it leaves at x = 1.5
Spawned == { j \in 1..Len(particles') : IsTick /\ particles'[j].x = INITIAL_VX }

\* C17: the emitted counter grows by exactly 1 for each particle appended to
\* the store, goes to 0 on a reset and changes in no other step; the store
\* never holds more particles than the counter says were emitted.
C17_CounterCountsSpawns ==
  /\ [](Len(particles) <= counter)
  /\ [][/\ Cardinality(Spawned) <= 1
        /\ counter' = IF handleReset THEN 0 ELSE counter + Cardinality(Spawned)]_vars

\* two particles emitted since the mount, both still in the store
C17_Witness ==
  /\ counter = 2
  /\ Len(particles) = 2
  /\ particles[2].x = INITIAL_VX
  /\ ticks = MaxFrames

\* a step is a user command: a click on a button, a slider or the checkbox
IsCommand == commands' = commands + 1

\* C18: a command other than a reset (pause, start, a parameter change)
\* leaves the particle store, the histogram and the emitted counter as they
\* are, and a step that is not an animate callback empties a non-empty store
\* or zeroes a non-zero histogram only if it is a reset.
C18_OnlyResetClears ==
  [][/\ (IsCommand /\ ~handleReset) => UNCHANGED <<particles, histogramData, counter>>
     /\ (~IsTick /\ particles # <<>> /\ particles' = <<>>) => handleReset
     /\ (histogramData # EmptyHistogram /\ histogramData' = EmptyHistogram)
          => handleReset]_vars

\* paused after a deflection, the particle and its bin count still there
C18_Witness ==
  /\ ~running
  /\ commands = 2
  /\ ticks = 2
  /\ SumBins(BinKeys) = 1
  /\ \E i \in 1..Len(particles) :
       particles[i].hasReachedNucleus /\ Len(particles[i].path) > 1

\* offsets createParticle can draw: those within half a pixel of the axis and
\* of the scattering distance on either side of it
BandImpacts ==
  { b \in (-4 * NUCLEUS_RADIUS * Scale)..(4 * NUCLEUS_RADIUS * Scale) :
      \/ Abs(b) <= Scale \div 2
      \/ Abs(Abs(b) - NUCLEUS_RADIUS * 3 * Scale) <= Scale \div 2 }

\* those of them for which some callback finds the particle within the
\* scattering distance
NearImpacts == { b \in BandImpacts : HitTick(b) # 0 }

\* C19: a particle is deflected if and only if |impactParameter| <= 3 *
\* NUCLEUS_RADIUS: with a larger offset it is at no callback within the
\* scattering distance and stays undeflected with velocity (1.5, 0); with an
\* offset up to 15 it is within the distance at some callback and is never
\* found undeflected beyond x = WIDTH / 2.
C19_DeflectedIffNear ==
  /\ NearImpacts = { b \in BandImpacts : Abs(b) <= NUCLEUS_RADIUS * 3 * Scale }
  /\ \A i \in 1..Len(particles) :
       LET p == particles[i]
       IN  IF Abs(p.impactParameter) <= NUCLEUS_RADIUS * 3 * Scale
           THEN p.hasReachedNucleus \/ p.x <= (WIDTH * Scale) \div 2
           ELSE ~p.hasReachedNucleus /\ p.vx = INITIAL_VX /\ p.vy = 0

\* a particle spawned exactly 15 px off the axis has been deflected, at
\* x = WIDTH / 2
C19_Witness ==
  \E i \in 1..Len(particles) :
    /\ particles[i].impactParameter = NUCLEUS_RADIUS * 3 * Scale
    /\ particles[i].hasReachedNucleus
    /\ particles[i].x = (WIDTH * Scale) \div 2 + particles[i].vx

\* a particle spawned 15.01 px off the axis has passed x = WIDTH / 2 undeflected
C19_FarPassed ==
  \E i \in 1..Len(particles) :
    /\ particles[i].impactParameter = NUCLEUS_RADIUS * 3 * Scale + 1
    /\ ~particles[i].hasReachedNucleus
    /\ particles[i].x > (WIDTH * Scale) \div 2

\* the callbacks after which a coordinate pos moving by vel per callback lies
\* outside 0..limit; limit + 1 stands for never
AxisTicks(pos, vel, limit) ==
  IF vel > 0 THEN (limit - pos) \div vel + 1
  ELSE IF vel < 0 THEN pos \div (-vel) + 1
  ELSE limit + 1

\* the callbacks after which a particle that keeps its velocity is removed
ExitTicks(p) ==
  LET tx == AxisTicks(p.x, p.vx, WIDTH * Scale)
      ty == AxisTicks(p.y, p.vy, HEIGHT * Scale)
  IN  IF tx <= ty THEN tx ELSE ty

\* a measure of the callbacks a particle has left: before the deflection of a
\* particle that will be deflected, the steps to the centre line on top of a
\* value above every ExitTicks; else ExitTicks
Rank(p) ==
  IF /\ ~p.hasReachedNucleus
     /\ Abs(p.impactParameter) <= NUCLEUS_RADIUS * 3 * Scale
     /\ p.x <= (WIDTH * Scale) \div 2
  THEN WIDTH * Scale + 2 + ((WIDTH * Scale) \div 2 - p.x) \div INITIAL_VX
  ELSE ExitTicks(p)

\* the largest perturbation of one velocity component
PerturbMax == CHOOSE d \in { Abs(c) : c \in PerturbChoices } :
                \A c \in PerturbChoices : Abs(c) <= d

\* C20: no particle stays in the store forever while the simulation runs.
\* Its velocity is (1.5, 0) before deflection and its speed at least 1.5
\* minus the perturbation bound after; every animate callback moves every
\* particle it keeps by that particle's velocity and strictly lowers a
\* natural-valued measure of the callbacks the particle has left; and, with
\* requested frames eventually delivered, each particle close enough to the
\* edge to leave within the frames of a behaviour is eventually gone unless
\* the simulation is stopped.
C20_ParticlesLeave ==
  /\ [](\A i \in 1..Len(particles) :
          LET p == particles[i]
          IN  /\ ~p.hasReachedNucleus => (p.vx = INITIAL_VX /\ p.vy = 0)
              /\ p.vx * p.vx + p.vy * p.vy >=
                   (INITIAL_VX - 2 * PerturbMax) * (INITIAL_VX - 2 * PerturbMax))
  /\ [][IsTick =>
          \A pq \in Survivors :
            /\ pq[2].x = pq[1].x + pq[2].vx
            /\ pq[2].y = pq[1].y + pq[2].vy
            /\ Rank(pq[2]) \in Nat
            /\ Rank(pq[2]) < Rank(pq[1])]_vars
  /\ \A k \in 1..MaxFrames :
       <>(~running \/ \A i \in 1..Len(particles) : particles[i].id # k)

\* frames have kept coming and the particles that were nearest to the right
\* edge are gone
C20_Witness ==
  /\ running
  /\ ticks = MaxFrames
  /\ Len(particles) >= MAX_PARTICLES - MaxFrames
  /\ particles[1].id = MaxFrames + 1

\* a deflected particle on its way out
C20_DeflectedMoving ==
  \E i \in 1..Len(particles) :
    /\ particles[i].hasReachedNucleus
    /\ particles[i].vx < 0
    /\ ticks = MaxFrames
====
